---- MODULE Spec2Model ----
(***************************************************************************)
(* Extraction / cleaning pipeline of the property crawler                  *)
(* (src/Crawler/crawleragent.py, src/Crawler/cleaner_agent.py).            *)
(*                                                                         *)
(* JSON scalars are tagged values [t, s, n]: t is the JSON/Python type,    *)
(* s the characters of a string (or the items of a list), n the number.    *)
(* A float is kept in hundredths (n = 100 * value).  A JSON object is a     *)
(* function from its keys to tagged values; a key that is not in its       *)
(* DOMAIN is a key the object does not have.                               *)
(***************************************************************************)
EXTENDS Integers, Sequences, FiniteSets, TLC

VARIABLES
    \* ---- extract_housing_info / extract_housing_info_sync ----
    workload,          \* which family of inputs this call is taken from
    all_chunks,        \* create_smart_chunks(text): token count of each chunk
    max_chunks,        \* argument, [some, val]
    max_total_tokens,  \* argument, [some, val]
    delay_seconds,     \* argument
    chunks,            \* retained chunks: indices into all_chunks
    i,                 \* loop index (1-based)
    pc,                \* position in the function
    all_housing_info,  \* the accumulating output list
    requests,          \* history: chunk index of every request issued
    sleeps,            \* history: loop index before which a sleep was made
    replies,           \* history: outcome of every request, in order
    in_flight,         \* requests issued and not yet answered
    escaped,           \* an exception left the function
    \* ---- clean_all_listings / clean_all_listings_fully_sync ----
    input_file,        \* what the input file holds
    c_delay,           \* delay_seconds argument
    c_i,               \* loop index (1-based)
    c_pc,              \* position in the function
    attempt,           \* tenacity attempt number of the current call
    cleaned_listings,  \* the accumulating output list
    c_requests,        \* history: record index of every request issued
    c_sleeps,          \* history: loop index before which a sleep was made
    c_waits,           \* history: [rec, after, secs] of every backoff wait
    c_replies,         \* history: per record, what ended its processing
    c_in_flight,       \* requests issued and not yet answered
    c_escaped,         \* an exception left the function
    \* ---- create_smart_chunks ----
    cleaned_text,      \* clean_text(text): a sequence of characters
    max_tokens,        \* argument
    overlap_tokens,    \* argument
    boundaries,        \* sorted candidate boundaries (0-based positions)
    k_i,               \* loop index i over boundaries[1:]
    current_start,     \* local
    current_tokens,    \* local
    smart_chunks,      \* local chunks: [from, to] of each slice appended
    k_pc,              \* position in the function
    \* ---- PropertyListing(**raw), then .dict() and PropertyListing again ----
    raw_object,        \* the raw object handed to the schema
    listing,           \* PropertyListing(**raw_object)
    relisting,         \* PropertyListing(**listing.dict())
    n_pc,              \* position
    \* ---- queue_tasks and the task chains it queues ----
    urls,              \* argument: the URLs, in order
    q_i,               \* loop index of queue_tasks (1-based)
    output,            \* the files of output/: name -> contents
    t_state,           \* per chain and stage: pending, running, returned, raised
    t_arg,             \* per chain and stage: the first argument it received
    t_result,          \* per chain and stage: the value it returned
    t_crawl,           \* per chain: what the crawl of its scrape_task fetched
    t_read,            \* per chain: what clean_task loaded from the raw file
    t_touched,         \* history: per chain, the files it read or wrote
    \* ---- one request to a proxy endpoint ----
    endpoint,          \* the handler that runs
    x_pc,              \* position in the handler
    upstream,          \* what the upstream call produced
    client             \* what the client receives

evars == <<workload, all_chunks, max_chunks, max_total_tokens,
           delay_seconds, chunks, i, pc, all_housing_info, requests, sleeps,
           replies, in_flight, escaped>>

cvars == <<input_file, c_delay, c_i, c_pc, attempt, cleaned_listings,
           c_requests, c_sleeps, c_waits, c_replies, c_in_flight, c_escaped>>

kvars == <<cleaned_text, max_tokens, overlap_tokens, boundaries, k_i,
           current_start, current_tokens, smart_chunks, k_pc>>

nvars == <<raw_object, listing, relisting, n_pc>>

pvars == <<urls, q_i, output, t_state, t_arg, t_result, t_crawl, t_read,
           t_touched>>

xvars == <<endpoint, x_pc, upstream, client>>

vars == <<evars, cvars, kvars, nvars, pvars, xvars>>

(***************************************************************************)
(* Bounds of the model.                                                    *)
(***************************************************************************)
MaxElems == 2        \* elements in one JSON array answered by the model
RichChunks == 2      \* chunks when every kind of reply is possible
MaxChunks == 3       \* chunks when the limits are exercised
MaxTok == 2          \* tokens of one chunk
MaxBudget == 3       \* largest max_total_tokens tried
MaxRecords == 3      \* raw listings in the cleaning input file

(***************************************************************************)
(* Tagged values.                                                          *)
(***************************************************************************)
None == [t |-> "null", s |-> <<>>, n |-> 0]

Err == [t |-> "error", s |-> <<>>, n |-> 0]

Str(cs) == [t |-> "str", s |-> cs, n |-> 0]

IntV(k) == [t |-> "int", s |-> <<>>, n |-> k]

FloatV(h) == [t |-> "float", s |-> <<>>, n |-> h]

ObjV == [t |-> "obj", s |-> <<>>, n |-> 0]

ListV(items) == [t |-> "list", s |-> items, n |-> 0]

Digits == {"0", "1", "2", "3", "4", "5", "6", "7", "8", "9"}

DigitVal(c) ==
    CASE c = "0" -> 0 [] c = "1" -> 1 [] c = "2" -> 2 [] c = "3" -> 3
      [] c = "4" -> 4 [] c = "5" -> 5 [] c = "6" -> 6 [] c = "7" -> 7
      [] c = "8" -> 8 [] c = "9" -> 9 [] OTHER -> 0

Lowers == <<"a", "b", "c", "d", "e", "f", "g", "h", "i", "j", "k", "l", "m",
            "n", "o", "p", "q", "r", "s", "t", "u", "v", "w", "x", "y", "z">>

Uppers == <<"A", "B", "C", "D", "E", "F", "G", "H", "I", "J", "K", "L", "M",
            "N", "O", "P", "Q", "R", "S", "T", "U", "V", "W", "X", "Y", "Z">>

UpperChar(c) ==
    IF \E k \in 1..26 : Lowers[k] = c
    THEN Uppers[CHOOSE k \in 1..26 : Lowers[k] = c] ELSE c

LowerChar(c) ==
    IF \E k \in 1..26 : Uppers[k] = c
    THEN Lowers[CHOOSE k \in 1..26 : Uppers[k] = c] ELSE c

Upper(cs) == [k \in 1..Len(cs) |-> UpperChar(cs[k])]

Lower(cs) == [k \in 1..Len(cs) |-> LowerChar(cs[k])]

RECURSIVE DigitsToInt(_)
DigitsToInt(cs) ==
    IF cs = <<>> THEN 0
    ELSE 10 * DigitsToInt(SubSeq(cs, 1, Len(cs) - 1)) + DigitVal(cs[Len(cs)])

\* Index of the first element of cs from position p on that is in set S, or 0.
FirstIn(cs, p, S) ==
    IF \E k \in p..Len(cs) : cs[k] \in S
    THEN CHOOSE k \in p..Len(cs) :
            cs[k] \in S /\ \A j \in p..(k - 1) : cs[j] \notin S
    ELSE 0

\* End of the run of digits that starts at position p.
DigitRunEnd(cs, p) ==
    CHOOSE e \in p..Len(cs) :
        /\ \A j \in p..e : cs[j] \in Digits
        /\ (e = Len(cs) \/ cs[e + 1] \notin Digits)

\* float(cleaned) for a text of digits and dots, in hundredths; Err: ValueError.
ParseFloat(cs) ==
    LET dots == SelectSeq(cs, LAMBDA c : c = ".")
        digs == SelectSeq(cs, LAMBDA c : c \in Digits)
        dot  == FirstIn(cs, 1, {"."})
        ip   == IF dot = 0 THEN cs ELSE SubSeq(cs, 1, dot - 1)
        fp   == IF dot = 0 THEN <<>> ELSE SubSeq(cs, dot + 1, Len(cs))
        f2   == SubSeq(fp \o <<"0", "0">>, 1, 2)
    IN  IF Len(dots) > 1 \/ digs = <<>> THEN Err
        ELSE FloatV(100 * DigitsToInt(ip) + DigitsToInt(f2))

(***************************************************************************)
(* PropertyListing: the schema and its field validators.                   *)
(***************************************************************************)
FieldNames == {"address", "price", "currency", "bedrooms", "bathrooms",
               "square_footage", "property_type", "listing_type",
               "year_built", "description", "amenities", "url", "source",
               "listing_date", "image_link", "additional_info"}

RequiredFields == {"address", "price", "currency", "bedrooms", "bathrooms",
                   "listing_type", "property_type", "description",
                   "image_link"}

valid_currencies == {<<"U", "S", "D">>, <<"M", "X", "N">>,
                     <<"E", "U", "R">>, <<"C", "A", "D">>}

CurrentYear == 2026

MinYear == 1800

\* Optional[str] of pydantic: a string or null, nothing is coerced.
OptionalStr(v) == IF v.t \in {"null", "str"} THEN v ELSE Err

\* Optional[float]: what a 'before' validator returned, then the type check.
OptionalFloat(v) == IF v.t \in {"null", "float"} THEN v ELSE Err

OptionalInt(v) == IF v.t \in {"null", "int"} THEN v ELSE Err

validate_price(v) ==
    CASE v.t = "null"  -> None
      [] v.t = "int"   -> FloatV(100 * v.n)
      [] v.t = "float" -> v
      [] v.t = "str"   ->
            LET cleaned == SelectSeq(v.s, LAMBDA c : c \in Digits \cup {"."})
            IN  IF cleaned = <<>> THEN None ELSE ParseFloat(cleaned)
      [] OTHER -> None

\* data: the fields validated before currency (address, price).
validate_currency(v, data) ==
    IF v.t \notin {"null", "str"} THEN Err        \* v.upper(): AttributeError
    ELSE IF v.t = "str" /\ Upper(v.s) \in valid_currencies
    THEN Str(Upper(v.s))
    ELSE LET price_str == IF "price" \in DOMAIN data /\ data["price"].t = "str"
                          THEN data["price"].s ELSE <<>>
             has(c)    == \E k \in 1..Len(price_str) : price_str[k] = c
             hasMXN    == \E k \in 1..(Len(price_str) - 2) :
                              SubSeq(price_str, k, k + 2) = <<"M", "X", "N">>
         IN  IF has("$") /\ hasMXN THEN Str(<<"M", "X", "N">>)
             ELSE IF has("$") THEN Str(<<"U", "S", "D">>)
             ELSE Str(<<"M", "X", "N">>)

\* An 'after' validator: the Optional[str] check comes first.
validate_listing_type(v) ==
    IF OptionalStr(v) = Err THEN Err
    ELSE IF v.t = "null" THEN None
    ELSE LET w == Lower(v.s)
         IN  IF w \in {<<"r", "e", "n", "t">>, <<"r", "e", "n", "t", "a", "l">>}
             THEN Str(<<"r", "e", "n", "t">>)
             ELSE IF w \in {<<"b", "u", "y">>, <<"s", "a", "l", "e">>}
             THEN Str(<<"b", "u", "y">>)
             ELSE None

validate_rooms(v) ==
    CASE v.t = "null"  -> None
      [] v.t = "int"   -> FloatV(100 * v.n)
      [] v.t = "float" -> v
      [] v.t = "str"   ->
            LET p == FirstIn(v.s, 1, Digits)
            IN  IF p = 0 THEN None
                ELSE LET e == DigitRunEnd(v.s, p)
                         frac == /\ e + 2 <= Len(v.s)
                                 /\ v.s[e + 1] = "."
                                 /\ v.s[e + 2] \in Digits
                         e2 == IF frac THEN DigitRunEnd(v.s, e + 2) ELSE e
                     IN  ParseFloat(SubSeq(v.s, p, e2))
      [] OTHER -> None

validate_square_footage(v) ==
    CASE v.t = "null"  -> None
      [] v.t = "int"   -> v
      [] v.t = "float" -> IntV(v.n \div 100)
      [] v.t = "str"   ->
            LET cs == SelectSeq(v.s, LAMBDA c : c # ",")
                p  == FirstIn(cs, 1, Digits)
            IN  IF p = 0 THEN None
                ELSE IntV(DigitsToInt(SubSeq(cs, p, DigitRunEnd(cs, p))))
      [] OTHER -> None

validate_year_built(v) ==
    CASE v.t = "null" -> None
      [] v.t = "int"  -> v
      [] v.t = "str"  ->
            LET starts == {p \in 1..(Len(v.s) - 3) :
                              \A j \in p..(p + 3) : v.s[j] \in Digits}
            IN  IF starts = {} THEN None
                ELSE LET p == CHOOSE q \in starts : \A r \in starts : q <= r
                         year == DigitsToInt(SubSeq(v.s, p, p + 3))
                     IN  IF MinYear <= year /\ year <= CurrentYear
                         THEN IntV(year) ELSE None
      [] OTHER -> None

\* List[str] with default []; Dict[str, Any] with default {}.
ListOfStr(v) == IF v.t = "list" THEN v ELSE Err

DictAny(v) == IF v.t = "obj" THEN v ELSE Err

\* One field of PropertyListing(**d). A key that is absent takes the field's
\* default and no validator runs on it.
FieldOf(d, k, data) ==
    IF k \notin DOMAIN d
    THEN (CASE k = "amenities" -> ListV(<<>>)
            [] k = "additional_info" -> ObjV
            [] OTHER -> None)
    ELSE CASE k = "price" -> OptionalFloat(validate_price(d[k]))
           [] k = "currency" -> OptionalStr(validate_currency(d[k], data))
           [] k = "listing_type" -> validate_listing_type(d[k])
           [] k \in {"bedrooms", "bathrooms"} ->
                  OptionalFloat(validate_rooms(d[k]))
           [] k = "square_footage" ->
                  OptionalInt(validate_square_footage(d[k]))
           [] k = "year_built" -> OptionalInt(validate_year_built(d[k]))
           [] k = "amenities" -> ListOfStr(d[k])
           [] k = "additional_info" -> DictAny(d[k])
           [] OTHER -> OptionalStr(d[k])

\* PropertyListing(**d): [ok |-> no exception, rec |-> the instance].
\* Fields are validated in declaration order; currency sees the validated
\* address and price (a field that failed is not in info.data).
PropertyListing(d) ==
    LET price == FieldOf(d, "price", << >>)
        data  == IF price = Err THEN [address |-> None]
                 ELSE [address |-> None, price |-> price]
        rec   == [k \in FieldNames |->
                     IF k = "price" THEN price ELSE FieldOf(d, k, data)]
    IN  [ok |-> \A k \in FieldNames : rec[k] # Err, rec |-> rec]

(***************************************************************************)
(* JSON documents and the replies of the model.                            *)
(* A document is [json, val]: an object (val: its fields), an array (val:  *)
(* its elements, documents themselves), a scalar (val: a tagged value) or  *)
(* text that json.loads rejects.  A reply is the outcome of one request:   *)
(* the call raised, or it returned a text: a document, bare or inside a    *)
(* fenced block labelled json or inside a fenced block with no label.      *)
(***************************************************************************)
Object(fields) == [json |-> "object", val |-> fields]

Array(items) == [json |-> "array", val |-> items]

Scalar(v) == [json |-> "scalar", val |-> v]

NotJson == [json |-> "invalid", val |-> None]

EmptyObject == Object([k \in {} |-> None])

Text(doc) == [error |-> FALSE, fence |-> "none", body |-> doc]

Fenced(label, doc) == [error |-> FALSE, fence |-> label, body |-> doc]

RequestError == [error |-> TRUE, fence |-> "none", body |-> NotJson]

\* re.search(r'```json\s*([\s\S]*?)\s*```', response_text), then json.loads:
\* the block labelled json when there is one, else the whole text.
ResponseJson(reply) ==
    CASE reply.fence = "json" -> reply.body
      [] reply.fence = "none" -> reply.body
      [] OTHER -> NotJson

\* mutant of Truthy: the test for an empty answer is lost
Truthy_Always(doc) == TRUE

\* Python truth value of a parsed document ("if cleaned_data:").
Truthy(doc) ==
    CASE doc.json = "object" -> DOMAIN doc.val # {}
      [] doc.json = "array"  -> doc.val # <<>>
      [] doc.json = "scalar" ->
            \/ doc.val.t \in {"int", "float"} /\ doc.val.n # 0
            \/ doc.val.t \in {"str", "list"} /\ doc.val.s # <<>>
            \/ doc.val.t = "obj"
      [] OTHER -> FALSE

(***************************************************************************)
(* The raw listings the model answers with.                                *)
(***************************************************************************)
SiteProvenance == Str(<<"Casas y Terrenos">>)

\* every required field present, in canonical form
Complete1 ==
    [address |-> Str(<<"A", "1">>), price |-> FloatV(10000),
     currency |-> Str(<<"U", "S", "D">>), bedrooms |-> FloatV(200),
     bathrooms |-> FloatV(150), listing_type |-> Str(<<"r", "e", "n", "t">>),
     property_type |-> Str(<<"house">>), description |-> Str(<<"d1">>),
     image_link |-> Str(<<"http://img/1">>), source |-> Str(<<"site">>)]

\* every required field present, in encodings the validators coerce
Complete2 ==
    [address |-> Str(<<"A", "2">>),
     price |-> Str(<<"$", "1", ",", "2", "5", "0", ".", "5", "0", " ",
                     "M", "X", "N">>),
     currency |-> Str(<<"m", "x", "n">>),
     bedrooms |-> Str(<<"3", " ", "b", "e", "d">>), bathrooms |-> IntV(2),
     listing_type |-> Str(<<"S", "a", "l", "e">>),
     property_type |-> Str(<<"condo">>), description |-> Str(<<"d2">>),
     image_link |-> Str(<<"http://img/2">>), year_built |-> IntV(1990)]

\* required fields missing (no price, no currency, ...) or null
Incomplete ==
    [address |-> Str(<<"A", "3">>), bedrooms |-> None,
     description |-> Str(<<"d3">>)]

\* address as a nested object: the schema raises
NestedAddress == [Complete1 EXCEPT !.address = ObjV]

ListingPool == {Object(Complete1), Object(Incomplete), Object(NestedAddress)}

RECURSIVE SeqsUpTo(_, _)
SeqsUpTo(S, n) ==
    IF n = 0 THEN {<<>>}
    ELSE LET shorter == SeqsUpTo(S, n - 1)
         IN  shorter \cup {Append(q, e) : q \in shorter, e \in S}

\* Every array of at most MaxElems listings of the pool, as a bare text; and
\* the other shapes of reply.
RichReplies ==
    {Text(Array(q)) : q \in SeqsUpTo(ListingPool, MaxElems)}
      \cup {RequestError,
            Text(NotJson),
            Text(Object(Complete2)),
            Text(Object(Incomplete)),
            Text(EmptyObject),
            Text(Scalar(IntV(42))),
            Text(Array(<<Scalar(IntV(42)), Object(Complete2)>>)),
            Fenced("json", Array(<<Object(Complete2)>>)),
            Fenced("json", NotJson),
            Fenced("other", Array(<<Object(Complete1)>>))}

FewReplies == {RequestError, Text(Array(<<Object(Complete1)>>))}

\* What the model may answer to one extraction request.
ModelReplies(w) == IF w = "replies" THEN RichReplies ELSE FewReplies

(***************************************************************************)
(* extract_housing_info / extract_housing_info_sync.                       *)
(***************************************************************************)
NoLimit == [some |-> FALSE, val |-> 0]

Limit(k) == [some |-> TRUE, val |-> k]

Min(a, b) == IF a < b THEN a ELSE b

Max(a, b) == IF a < b THEN b ELSE a

\* chunks[:max_chunks], as indices into all, when max_chunks is given and > 0
TruncateChunks(all, mc) ==
    IF mc.some /\ mc.val > 0
    THEN [k \in 1..Min(mc.val, Len(all)) |-> k]
    ELSE [k \in 1..Len(all) |-> k]

\* mutant of BudgetLoop: a chunk over the budget is passed over, the loop goes on
RECURSIVE BudgetLoop_Continue(_, _, _, _, _, _)
BudgetLoop_Continue(all, idx, k, budget, total_tokens, limited_chunks) ==
    IF k > Len(idx) THEN limited_chunks
    ELSE LET chunk_tokens == all[idx[k]]
         IN  IF total_tokens + chunk_tokens <= budget
             THEN BudgetLoop_Continue(all, idx, k + 1, budget,
                                      total_tokens + chunk_tokens,
                                      Append(limited_chunks, idx[k]))
             ELSE BudgetLoop_Continue(all, idx, k + 1, budget, total_tokens,
                                      limited_chunks)

\* the loop over chunks with its break, when max_total_tokens is given and > 0
RECURSIVE BudgetLoop(_, _, _, _, _, _)
BudgetLoop(all, idx, k, budget, total_tokens, limited_chunks) ==
    IF k > Len(idx) THEN limited_chunks
    ELSE LET chunk_tokens == all[idx[k]]
         IN  IF total_tokens + chunk_tokens <= budget
             THEN BudgetLoop(all, idx, k + 1, budget,
                             total_tokens + chunk_tokens,
                             Append(limited_chunks, idx[k]))
             ELSE limited_chunks

LimitChunks(all, mc, mt) ==
    LET idx == TruncateChunks(all, mc)
    IN  IF mt.some /\ mt.val > 0
        THEN BudgetLoop(all, idx, 1, mt.val, 0, <<>>)
        ELSE idx

\* listing_data['source'] = 'Casas y Terrenos' when the key is missing
WithSource(d) ==
    [k \in DOMAIN d \cup {"source"} |->
        IF k \in DOMAIN d THEN d[k] ELSE SiteProvenance]

\* The loop over the elements of one reply: a non-dict is passed over, a dict
\* is validated and appended; the first PropertyListing that raises ends the
\* loop (the exception is caught by the chunk's handler).
RECURSIVE ValidateListings(_, _, _)
ValidateListings(listings, k, acc) ==
    IF k > Len(listings) THEN [list |-> acc, raised |-> FALSE]
    ELSE IF listings[k].json # "object"
    THEN ValidateListings(listings, k + 1, acc)
    ELSE LET validated_listing == PropertyListing(WithSource(listings[k].val))
         IN  IF validated_listing.ok
             THEN ValidateListings(listings, k + 1,
                                   Append(acc, validated_listing.rec))
             ELSE [list |-> acc, raised |-> TRUE]

\* mutant of ProcessChunk: a reply that cannot be parsed empties the list
ProcessChunk_ResetOnError(reply, acc) ==
    LET chunk_info == ResponseJson(reply)
        listings   == IF chunk_info.json = "array" THEN chunk_info.val
                      ELSE <<chunk_info>>
    IN  IF chunk_info = NotJson THEN [list |-> <<>>, raised |-> TRUE]
        ELSE ValidateListings(listings, 1, acc)

\* The body of the try block after the request returned.
ProcessChunk(reply, acc) ==
    LET chunk_info == ResponseJson(reply)
        listings   == IF chunk_info.json = "array" THEN chunk_info.val
                      ELSE <<chunk_info>>
    IN  IF chunk_info = NotJson THEN [list |-> acc, raised |-> TRUE]
        ELSE ValidateListings(listings, 1, acc)

\* mutant of NeedsSleep: the test on the loop index is lost
NeedsSleep_EveryUnit(k, delay) == delay > 0

\* "if i > 0 and delay_seconds > 0" (i is 0-based in the code, 1-based here)
NeedsSleep(k, delay) == k > 1 /\ delay > 0

AtCall == pc = "call" \/ (pc = "loop" /\ ~NeedsSleep(i, delay_seconds))

AfterChunk(k, n) == IF k + 1 > n THEN "done" ELSE "loop"

\* create_smart_chunks, then the two limits
ExtractBegin ==
    /\ pc = "start"
    /\ chunks' = LimitChunks(all_chunks, max_chunks, max_total_tokens)
    /\ i' = 1
    /\ pc' = IF Len(chunks') = 0 THEN "done" ELSE "loop"
    /\ UNCHANGED <<workload, all_chunks, max_chunks, max_total_tokens,
                   delay_seconds, all_housing_info, requests, sleeps,
                   replies, in_flight, escaped>>
    /\ UNCHANGED <<cvars, kvars, nvars, pvars, xvars>>

\* await asyncio.sleep(delay_seconds) / time.sleep(delay_seconds)
ExtractSleep ==
    /\ pc = "loop"
    /\ NeedsSleep(i, delay_seconds)
    /\ sleeps' = Append(sleeps, i)
    /\ pc' = "call"
    /\ UNCHANGED <<workload, all_chunks, max_chunks, max_total_tokens,
                   delay_seconds, chunks, i, all_housing_info, requests,
                   replies, in_flight, escaped>>
    /\ UNCHANGED <<cvars, kvars, nvars, pvars, xvars>>

\* mutant of ExtractRequest: the next request is issued without waiting for
\* the reply to the one before
ExtractRequest_Unawaited ==
    /\ pc \in {"loop", "call", "await"}
    /\ Len(requests) < Len(chunks)
    /\ requests' = Append(requests, chunks[Len(requests) + 1])
    /\ in_flight' = in_flight + 1
    /\ pc' = "await"
    /\ UNCHANGED <<workload, all_chunks, max_chunks, max_total_tokens,
                   delay_seconds, chunks, i, all_housing_info, sleeps,
                   replies, escaped>>
    /\ UNCHANGED <<cvars, kvars, nvars, pvars, xvars>>

\* client.chat.completions.create(...) is issued for chunk i
ExtractRequest ==
    /\ AtCall
    /\ requests' = Append(requests, chunks[i])
    /\ in_flight' = in_flight + 1
    /\ pc' = "await"
    /\ UNCHANGED <<workload, all_chunks, max_chunks, max_total_tokens,
                   delay_seconds, chunks, i, all_housing_info, sleeps,
                   replies, escaped>>
    /\ UNCHANGED <<cvars, kvars, nvars, pvars, xvars>>

\* The request returns or raises; the reply is parsed and validated; whatever
\* is raised is caught by "except Exception" and the loop goes on.
ExtractReply ==
    /\ pc = "await"
    /\ \E reply \in ModelReplies(workload) :
          LET out == IF reply.error
                     THEN [list |-> all_housing_info, raised |-> TRUE]
                     ELSE ProcessChunk(reply, all_housing_info)
          IN  /\ replies' = Append(replies, reply)
              /\ all_housing_info' = out.list
    /\ in_flight' = in_flight - 1
    /\ i' = i + 1
    /\ pc' = AfterChunk(i, Len(chunks))
    /\ UNCHANGED <<workload, all_chunks, max_chunks, max_total_tokens,
                   delay_seconds, chunks, requests, sleeps, escaped>>
    /\ UNCHANGED <<cvars, kvars, nvars, pvars, xvars>>

NextExtract ==
    \/ ExtractBegin
    \/ ExtractSleep
    \/ ExtractRequest
    \/ ExtractReply

(***************************************************************************)
(* clean_all_listings / clean_all_listings_fully_sync, with the tenacity   *)
(* retry of clean_single_listing_async / clean_single_listing_sync.        *)
(***************************************************************************)
stop_after_attempt == 3

wait_multiplier == 1

wait_min == 4

wait_max == 60

RECURSIVE Pow2(_)
Pow2(k) == IF k <= 0 THEN 1 ELSE 2 * Pow2(k - 1)

\* mutant of wait_exponential: min taken as the base delay that doubles
wait_exponential_Doubling(k) == Min(wait_min * Pow2(k - 1), wait_max)

\* tenacity.wait_exponential(multiplier, min, max) after attempt number k:
\* max(min, min(multiplier * 2 ** (k - 1), max))
wait_exponential(k) ==
    Max(Max(0, wait_min), Min(wait_multiplier * Pow2(k - 1), wait_max))

CleanReplies ==
    {Text(EmptyObject),
     Text(Object(Complete1)),
     Fenced("json", Object(Complete2)),
     Text(Object(Incomplete)),
     Text(Object(NestedAddress)),
     Text(NotJson)}

CAtCall == c_pc = "call" \/ (c_pc = "loop" /\ ~NeedsSleep(c_i, c_delay))

\* mutant of CleanBegin: the loop is entered whatever the file holds
CleanBegin_Unchecked ==
    /\ c_pc = "start"
    /\ c_i' = 1
    /\ c_pc' = "loop"
    /\ UNCHANGED <<input_file, c_delay, attempt, cleaned_listings, c_requests,
                   c_sleeps, c_waits, c_replies, c_in_flight, c_escaped>>
    /\ UNCHANGED <<evars, kvars, nvars, pvars, xvars>>

\* open(input_file), json.load, isinstance(raw_listings, list)
CleanBegin ==
    /\ c_pc = "start"
    /\ c_i' = 1
    /\ c_pc' = IF input_file.kind = "array" /\ input_file.n > 0
               THEN "loop" ELSE "done"
    /\ UNCHANGED <<input_file, c_delay, attempt, cleaned_listings, c_requests,
                   c_sleeps, c_waits, c_replies, c_in_flight, c_escaped>>
    /\ UNCHANGED <<evars, kvars, nvars, pvars, xvars>>

CleanSleep ==
    /\ c_pc = "loop"
    /\ NeedsSleep(c_i, c_delay)
    /\ c_sleeps' = Append(c_sleeps, c_i)
    /\ c_pc' = "call"
    /\ UNCHANGED <<input_file, c_delay, c_i, attempt, cleaned_listings,
                   c_requests, c_waits, c_replies, c_in_flight, c_escaped>>
    /\ UNCHANGED <<evars, kvars, nvars, pvars, xvars>>

\* clean_single_listing(listing_json): first attempt for record c_i
CleanRequest ==
    /\ CAtCall
    /\ attempt' = 1
    /\ c_requests' = Append(c_requests, c_i)
    /\ c_in_flight' = c_in_flight + 1
    /\ c_pc' = "await"
    /\ UNCHANGED <<input_file, c_delay, c_i, cleaned_listings, c_sleeps,
                   c_waits, c_replies, c_escaped>>
    /\ UNCHANGED <<evars, kvars, nvars, pvars, xvars>>

\* tenacity calls the function again after the backoff wait
CleanRetry ==
    /\ c_pc = "retry"
    /\ c_requests' = Append(c_requests, c_i)
    /\ c_in_flight' = c_in_flight + 1
    /\ c_pc' = "await"
    /\ UNCHANGED <<input_file, c_delay, c_i, attempt, cleaned_listings,
                   c_sleeps, c_waits, c_replies, c_escaped>>
    /\ UNCHANGED <<evars, kvars, nvars, pvars, xvars>>

\* mutant of CleanAttemptFails: no retry, the first failure is final
CleanAttemptFails_NoRetry ==
    /\ c_pc = "await"
    /\ c_in_flight' = c_in_flight - 1
    /\ c_replies' = Append(c_replies, RequestError)
    /\ c_i' = c_i + 1
    /\ c_pc' = AfterChunk(c_i, input_file.n)
    /\ UNCHANGED <<input_file, c_delay, attempt, cleaned_listings, c_requests,
                   c_sleeps, c_waits, c_escaped>>
    /\ UNCHANGED <<evars, kvars, nvars, pvars, xvars>>

\* mutant of CleanAttemptFails: one attempt more before giving up
CleanAttemptFails_FourAttempts ==
    /\ c_pc = "await"
    /\ c_in_flight' = c_in_flight - 1
    /\ IF attempt < stop_after_attempt + 1
       THEN /\ c_waits' = Append(c_waits, [rec |-> c_i, after |-> attempt,
                                           secs |-> wait_exponential(attempt)])
            /\ attempt' = attempt + 1
            /\ c_pc' = "retry"
            /\ UNCHANGED <<c_i, c_replies>>
       ELSE /\ c_replies' = Append(c_replies, RequestError)
            /\ c_i' = c_i + 1
            /\ c_pc' = AfterChunk(c_i, input_file.n)
            /\ UNCHANGED <<attempt, c_waits>>
    /\ UNCHANGED <<input_file, c_delay, cleaned_listings, c_requests,
                   c_sleeps, c_escaped>>
    /\ UNCHANGED <<evars, kvars, nvars, pvars, xvars>>

\* The call raised. Before the last attempt tenacity sleeps and retries; after
\* it, RetryError is raised into the loop body, whose handler logs it.
CleanAttemptFails ==
    /\ c_pc = "await"
    /\ c_in_flight' = c_in_flight - 1
    /\ IF attempt < stop_after_attempt
       THEN /\ c_waits' = Append(c_waits, [rec |-> c_i, after |-> attempt,
                                           secs |-> wait_exponential(attempt)])
            /\ attempt' = attempt + 1
            /\ c_pc' = "retry"
            /\ UNCHANGED <<c_i, c_replies>>
       ELSE /\ c_replies' = Append(c_replies, RequestError)
            /\ c_i' = c_i + 1
            /\ c_pc' = AfterChunk(c_i, input_file.n)
            /\ UNCHANGED <<attempt, c_waits>>
    /\ UNCHANGED <<input_file, c_delay, cleaned_listings, c_requests,
                   c_sleeps, c_escaped>>
    /\ UNCHANGED <<evars, kvars, nvars, pvars, xvars>>

\* What the loop body does with the text the call returned:
\* [list |-> cleaned_listings afterwards, raised |-> an exception was caught]
ProcessCleaned(reply, acc) ==
    LET cleaned_data == ResponseJson(reply)
    IN  IF cleaned_data = NotJson THEN [list |-> acc, raised |-> TRUE]
        ELSE IF ~Truthy(cleaned_data) THEN [list |-> acc, raised |-> FALSE]
        ELSE IF cleaned_data.json # "object"
        THEN [list |-> acc, raised |-> TRUE]       \* PropertyListing(**x)
        ELSE LET cleaned_listing == PropertyListing(cleaned_data.val)
             IN  IF cleaned_listing.ok
                 THEN [list |-> Append(acc, cleaned_listing.rec),
                       raised |-> FALSE]
                 ELSE [list |-> acc, raised |-> TRUE]

\* mutant of CleanReply: a reply that cannot be used is asked for again
CleanReply_RetryBadResponse ==
    /\ c_pc = "await"
    /\ \E reply \in CleanReplies :
          IF ProcessCleaned(reply, cleaned_listings).raised
             /\ attempt < stop_after_attempt
          THEN /\ attempt' = attempt + 1
               /\ c_pc' = "retry"
               /\ UNCHANGED <<c_replies, cleaned_listings, c_i>>
          ELSE /\ c_replies' = Append(c_replies, reply)
               /\ cleaned_listings' =
                     ProcessCleaned(reply, cleaned_listings).list
               /\ c_i' = c_i + 1
               /\ c_pc' = AfterChunk(c_i, input_file.n)
               /\ UNCHANGED attempt
    /\ c_in_flight' = c_in_flight - 1
    /\ UNCHANGED <<input_file, c_delay, c_requests, c_sleeps, c_waits,
                   c_escaped>>
    /\ UNCHANGED <<evars, kvars, nvars, pvars, xvars>>

CleanReply ==
    /\ c_pc = "await"
    /\ \E reply \in CleanReplies :
          /\ c_replies' = Append(c_replies, reply)
          /\ cleaned_listings' = ProcessCleaned(reply, cleaned_listings).list
    /\ c_in_flight' = c_in_flight - 1
    /\ c_i' = c_i + 1
    /\ c_pc' = AfterChunk(c_i, input_file.n)
    /\ UNCHANGED <<input_file, c_delay, attempt, c_requests, c_sleeps,
                   c_waits, c_escaped>>
    /\ UNCHANGED <<evars, kvars, nvars, pvars, xvars>>

NextClean ==
    \/ CleanBegin
    \/ CleanSleep
    \/ CleanRequest
    \/ CleanRetry
    \/ CleanAttemptFails
    \/ CleanReply

(***************************************************************************)
(* create_smart_chunks.                                                    *)
(* Positions are 0-based as in the code; text[a:b] is Slice(text, a, b).   *)
(* Texts are built from a few pieces: a word, a full stop, a blank and a   *)
(* currency amount.  Of listing_patterns only \$[\d,]+ can match such a    *)
(* text, and the three re.sub of clean_text find nothing to remove in it.  *)
(* len(tokenizer.encode(s)) is taken as the number of non-blank characters *)
(* of s (a blank is carried by the token that follows it).                 *)
(***************************************************************************)
MaxPieces == 6       \* pieces of the text handed to create_smart_chunks
MaxTokens == 2       \* largest max_tokens tried
MaxOverlap == 2      \* largest overlap_tokens tried

Pieces == {<<"a">>, <<".">>, <<" ">>, <<"$", "1">>}

RECURSIVE Flatten(_)
Flatten(q) == IF q = <<>> THEN <<>> ELSE Head(q) \o Flatten(Tail(q))

Texts == {Flatten(q) : q \in SeqsUpTo(Pieces, MaxPieces)}

\* ' '.join(text.split()): runs of blanks become one blank, none at the ends
RECURSIVE JoinSplit(_, _)
JoinSplit(cs, acc) ==
    IF cs = <<>>
    THEN IF acc # <<>> /\ acc[Len(acc)] = " "
         THEN SubSeq(acc, 1, Len(acc) - 1) ELSE acc
    ELSE IF Head(cs) = " " /\ (acc = <<>> \/ acc[Len(acc)] = " ")
    THEN JoinSplit(Tail(cs), acc)
    ELSE JoinSplit(Tail(cs), Append(acc, Head(cs)))

clean_text(text) == JoinSplit(text, <<>>)

Slice(cs, a, b) == SubSeq(cs, a + 1, b)

\* str.strip()
RECURSIVE Strip(_)
Strip(cs) ==
    IF cs = <<>> THEN cs
    ELSE IF Head(cs) = " " THEN Strip(Tail(cs))
    ELSE IF cs[Len(cs)] = " " THEN Strip(SubSeq(cs, 1, Len(cs) - 1))
    ELSE cs

\* len(tokenizer.encode(cs))
Tokens(cs) == Len(SelectSeq(cs, LAMBDA c : c # " "))

\* match.start() of every match of \$[\d,]+ found by re.finditer
MatchStarts(cs) ==
    {m \in 0..(Len(cs) - 2) :
        cs[m + 1] = "$" /\ cs[m + 2] \in Digits \cup {","}}

\* cleaned_text.rfind('.', 0, m), then 0 if it is -1, else + 1
SentenceStart(cs, m) ==
    LET dots == {q \in 0..(m - 1) : cs[q + 1] = "."}
    IN  IF dots = {} THEN 0
        ELSE (CHOOSE q \in dots : \A r \in dots : r <= q) + 1

RECURSIVE SortedSeq(_)
SortedSeq(S) ==
    IF S = {} THEN <<>>
    ELSE LET least == CHOOSE x \in S : \A y \in S : x <= y
         IN  <<least>> \o SortedSeq(S \ {least})

\* boundaries = [0], each new sentence start appended once, then sorted
Boundaries(cs) ==
    SortedSeq({0} \cup {SentenceStart(cs, m) : m \in MatchStarts(cs)})

Span(a, b) == [from |-> a, to |-> b]

\* cleaned_text, the boundaries and the locals before the loop
ChunkBegin ==
    /\ k_pc = "start"
    /\ boundaries' = Boundaries(cleaned_text)
    /\ k_i' = 1
    /\ current_start' = 0
    /\ current_tokens' = 0
    /\ smart_chunks' = <<>>
    /\ k_pc' = IF Len(boundaries') > 1 THEN "loop" ELSE "tail"
    /\ UNCHANGED <<cleaned_text, max_tokens, overlap_tokens>>
    /\ UNCHANGED <<evars, cvars, nvars, pvars, xvars>>

\* one turn of "for i, boundary in enumerate(boundaries[1:], 1)":
\* boundaries[i] of the code is boundaries[k_i + 1] here
ChunkStep ==
    /\ k_pc = "loop"
    /\ LET boundary == boundaries[k_i + 1]
           segment  == Strip(Slice(cleaned_text, current_start, boundary))
           segment_tokens == Tokens(segment)
       IN  IF current_tokens + segment_tokens > max_tokens
           THEN LET chunk_end == boundaries[k_i]
                    overlap_start == Max(0, chunk_end - overlap_tokens)
                IN  /\ smart_chunks' =
                          Append(smart_chunks, Span(current_start, chunk_end))
                    /\ current_start' = overlap_start
                    /\ current_tokens' =
                          Tokens(Slice(cleaned_text, overlap_start, boundary))
                            + segment_tokens
           ELSE /\ current_tokens' = current_tokens + segment_tokens
                /\ UNCHANGED <<smart_chunks, current_start>>
    /\ k_i' = k_i + 1
    /\ k_pc' = IF k_i + 1 > Len(boundaries) - 1 THEN "tail" ELSE "loop"
    /\ UNCHANGED <<cleaned_text, max_tokens, overlap_tokens, boundaries>>
    /\ UNCHANGED <<evars, cvars, nvars, pvars, xvars>>

\* mutant of ChunkFinish: the text after the last cut is not emitted
ChunkFinish_NoRemainder ==
    /\ k_pc = "tail"
    /\ k_pc' = "done"
    /\ UNCHANGED <<cleaned_text, max_tokens, overlap_tokens, boundaries, k_i,
                   current_start, current_tokens, smart_chunks>>
    /\ UNCHANGED <<evars, cvars, nvars, pvars, xvars>>

\* "if current_start < len(cleaned_text)": the remainder, then return chunks
ChunkFinish ==
    /\ k_pc = "tail"
    /\ smart_chunks' =
          IF current_start < Len(cleaned_text)
          THEN Append(smart_chunks, Span(current_start, Len(cleaned_text)))
          ELSE smart_chunks
    /\ k_pc' = "done"
    /\ UNCHANGED <<cleaned_text, max_tokens, overlap_tokens, boundaries, k_i,
                   current_start, current_tokens>>
    /\ UNCHANGED <<evars, cvars, nvars, pvars, xvars>>

NextChunk ==
    \/ ChunkBegin
    \/ ChunkStep
    \/ ChunkFinish

(***************************************************************************)
(* PropertyListing applied to one raw object, and applied again to the     *)
(* dict() of the instance it made.  A raw object is drawn with each of     *)
(* address, price, currency, year_built and listing_type either without    *)
(* its key (Absent) or in one of the encodings below.                      *)
(***************************************************************************)
Absent == [t |-> "absent", s |-> <<>>, n |-> 0]

AddressEncodings == {Absent, Str(<<"A", "1">>), ObjV}

PriceEncodings ==
    {Absent, None, IntV(100), IntV(-5), FloatV(9950), FloatV(-250),
     Str(<<"$", "1", "0", "0">>), Str(<<"$", "1", "0", "0", " ", "M", "X", "N">>), Str(<<"1", "0", "0", " ", "M", "X", "N">>),
     Str(<<"1", ",", "2", "5", "0", ".", "5", "0">>), Str(<<"-", "5">>), Str(<<"c", "a", "l", "l">>),
     Str(<<"1", ".", "2", ".", "3">>)}

CurrencyEncodings ==
    {Absent, None, Str(<<"u", "s", "d">>), Str(<<"M", "X", "N">>), Str(<<"X", "Y", "Z">>)}

YearEncodings ==
    {Absent, None, IntV(MinYear - 1), IntV(MinYear), IntV(CurrentYear),
     IntV(CurrentYear + 1), Str(<<"1", "7", "9", "9">>), Str(<<"b", "u", "i", "l", "t", " ", "1", "9", "9", "0">>),
     Str(<<"2", "0", "2", "7">>), Str(<<"n", "/", "a">>)}

ListingTypeEncodings == {Absent, Str(<<"R", "e", "n", "t", "a", "l">>), Str(<<"l", "e", "a", "s", "e">>)}

\* the object with the keys whose value is not Absent
RawOf(a, p, c, y, l) ==
    LET full == [address |-> a, price |-> p, currency |-> c,
                 year_built |-> y, listing_type |-> l]
        keys == {k \in DOMAIN full : full[k] # Absent}
    IN  [k \in keys |-> full[k]]

RawObjects ==
    {RawOf(a, p, c, y, l) :
        a \in AddressEncodings, p \in PriceEncodings, c \in CurrencyEncodings,
        y \in YearEncodings, l \in ListingTypeEncodings}

\* listing.dict(), written by json.dump and read back: every field of the
\* schema is a key, a field without value is an explicit null
ToDict(rec) == [k \in FieldNames |-> rec[k]]

NoListing == [ok |-> FALSE, rec |-> [k \in FieldNames |-> None]]

\* PropertyListing(**raw_object)
Normalize ==
    /\ n_pc = "start"
    /\ listing' = PropertyListing(raw_object)
    /\ n_pc' = "validated"
    /\ UNCHANGED <<raw_object, relisting>>
    /\ UNCHANGED <<evars, cvars, kvars, pvars, xvars>>

\* PropertyListing(**d) for d the stored dict() of the instance
Renormalize ==
    /\ n_pc = "validated"
    /\ listing.ok
    /\ relisting' = PropertyListing(ToDict(listing.rec))
    /\ n_pc' = "revalidated"
    /\ UNCHANGED <<raw_object, listing>>
    /\ UNCHANGED <<evars, cvars, kvars, pvars, xvars>>

NextNormalize ==
    \/ Normalize
    \/ Renormalize

(***************************************************************************)
(* The task chains of queue_tasks (src/Crawler/property_pipeline.py).      *)
(*                                                                         *)
(* A file of output/ is named by [kind, name]; what it holds is kept as    *)
(* [exists, by, of, n]: the chain that wrote it, the chain whose            *)
(* scrape_task extracted its records, and how many records it holds.       *)
(* Chain 0 stands for an earlier run of the pipeline.                      *)
(***************************************************************************)
HashLen == 50

MaxListings == 1

\* re.sub(r'[^a-zA-Z0-9]', '_', url)[:50]
url_hash(url) ==
    LET alnum == {Lowers[j] : j \in DOMAIN Lowers}
                     \cup {Uppers[j] : j \in DOMAIN Uppers} \cup Digits
        safe == [k \in 1..Len(url) |-> IF url[k] \in alnum THEN url[k] ELSE "_"]
    IN  SubSeq(safe, 1, Min(Len(safe), HashLen))

\* URLs of the model: two that differ in a character outside a-zA-Z0-9, one
\* that differs in a letter, and two that differ only after HashLen characters
Urls ==
    LET long == [k \in 1..HashLen |-> "a"]
    IN  {<<"a", "/", "b">>, <<"a", "-", "b">>, <<"a", "b">>,
         long \o <<"b">>, long \o <<"c">>}

UrlLists == {<<u, v>> : u \in Urls, v \in Urls}

FileName(kind, url) == [kind |-> kind, name |-> url_hash(url)]

FileNames ==
    {FileName(kind, u) : kind \in {"raw", "cleaned", "formatted"}, u \in Urls}

NoFile == [exists |-> FALSE, by |-> 0, of |-> 0, n |-> 0]

File(by, of, n) == [exists |-> TRUE, by |-> by, of |-> of, n |-> n]

StageNames == {"scrape", "clean", "format"}

NextStage(stage) == IF stage = "scrape" THEN "clean" ELSE "format"

\* the dict a task returns; a key the dict does not have is "" or -1
Result(url, file, num_listings, error) ==
    [url |-> url, file |-> file, num_listings |-> num_listings, error |-> error]

NoResult == Result(<<>>, [kind |-> "none", name |-> <<>>], -1, "")

Chains == DOMAIN urls

\* chain(scrape_task.s(...), clean_task.s(cleaner_delay), format_task.s()): a
\* stage that raises ends its chain whatever stages were to follow
Chained_IgnoreFailure(c, stage, returned, result) ==
    /\ t_result' = [t_result EXCEPT ![c][stage] = result]
    /\ IF stage # "format"
       THEN /\ t_state' = [t_state EXCEPT
                              ![c][stage] = IF returned THEN "returned" ELSE "raised",
                              ![c][NextStage(stage)] = "pending"]
            /\ t_arg' = [t_arg EXCEPT ![c][NextStage(stage)] = result]
       ELSE /\ t_state' = [t_state EXCEPT
                              ![c][stage] = IF returned THEN "returned" ELSE "raised"]
            /\ UNCHANGED t_arg

\* chain(scrape_task.s(...), clean_task.s(cleaner_delay), format_task.s()): the
\* return value of a stage is sent, as first argument, to the stage after it;
\* a stage that raises sends nothing
Chained(c, stage, returned, result) ==
    /\ t_result' = [t_result EXCEPT ![c][stage] = result]
    /\ IF returned /\ stage # "format"
       THEN /\ t_state' = [t_state EXCEPT ![c][stage] = "returned",
                                          ![c][NextStage(stage)] = "pending"]
            /\ t_arg' = [t_arg EXCEPT ![c][NextStage(stage)] = result]
       ELSE /\ t_state' = [t_state EXCEPT
                              ![c][stage] = IF returned THEN "returned" ELSE "raised"]
            /\ UNCHANGED t_arg

\* for url in urls: workflow = chain(...); workflow.apply_async()
QueueChain ==
    /\ urls # <<>>
    /\ q_i <= Len(urls)
    /\ t_state' = [t_state EXCEPT ![q_i]["scrape"] = "pending"]
    /\ q_i' = q_i + 1
    /\ UNCHANGED <<urls, output, t_arg, t_result, t_crawl, t_read, t_touched>>
    /\ UNCHANGED <<evars, cvars, kvars, nvars, xvars>>

\* a worker of scraper_queue takes scrape_task
ScrapeTaskBegin ==
    /\ \E c \in Chains :
        /\ t_state[c]["scrape"] = "pending"
        /\ t_state' = [t_state EXCEPT ![c]["scrape"] = "running"]
    /\ UNCHANGED <<urls, q_i, output, t_arg, t_result, t_crawl, t_read, t_touched>>
    /\ UNCHANGED <<evars, cvars, kvars, nvars, xvars>>

\* process_scraping raises: scrape_task logs and raises again
ScrapeTaskRaises ==
    /\ \E c \in Chains :
        /\ t_state[c]["scrape"] = "running"
        /\ t_crawl' = [t_crawl EXCEPT ![c] = "raises"]
        /\ Chained(c, "scrape", FALSE, NoResult)
    /\ UNCHANGED <<urls, q_i, output, t_read, t_touched>>
    /\ UNCHANGED <<evars, cvars, kvars, nvars, xvars>>

\* no result of the crawl has success: process_scraping returns 0 and saves
\* nothing; scrape_task returns the name of the raw file all the same
ScrapeTaskNoPage ==
    /\ \E c \in Chains :
        /\ t_state[c]["scrape"] = "running"
        /\ t_crawl' = [t_crawl EXCEPT ![c] = "no page"]
        /\ Chained(c, "scrape", TRUE,
                   Result(urls[c], FileName("raw", urls[c]), 0, ""))
    /\ UNCHANGED <<urls, q_i, output, t_read, t_touched>>
    /\ UNCHANGED <<evars, cvars, kvars, nvars, xvars>>

\* some page was fetched: the listings extracted from it are saved by
\* save_to_json(housing_info, url) and counted in the return value
ScrapeTaskSaves ==
    /\ \E c \in Chains, n \in 0..MaxListings :
        /\ t_state[c]["scrape"] = "running"
        /\ t_crawl' = [t_crawl EXCEPT ![c] = "pages"]
        /\ output' = [output EXCEPT ![FileName("raw", urls[c])] = File(c, c, n)]
        /\ t_touched' = [t_touched EXCEPT ![c] = @ \cup {FileName("raw", urls[c])}]
        /\ Chained(c, "scrape", TRUE,
                   Result(urls[c], FileName("raw", urls[c]), n, ""))
    /\ UNCHANGED <<urls, q_i, t_read>>
    /\ UNCHANGED <<evars, cvars, kvars, nvars, xvars>>

\* clean_task(scrape_result, delay_seconds) up to the load of the raw file: no
\* such file, and it writes [] and returns the error; else the file is loaded
CleanTaskBegin ==
    /\ \E c \in Chains :
        LET scrape_result == t_arg[c]["clean"]
            raw_file == scrape_result.file
            cleaned_file == FileName("cleaned", scrape_result.url)
        IN  /\ t_state[c]["clean"] = "pending"
            /\ IF ~output[raw_file].exists
               THEN /\ output' = [output EXCEPT ![cleaned_file] = File(c, c, 0)]
                    /\ t_touched' = [t_touched EXCEPT
                                        ![c] = @ \cup {raw_file, cleaned_file}]
                    /\ Chained(c, "clean", TRUE,
                               Result(scrape_result.url, cleaned_file, 0,
                                      "Raw file not found"))
                    /\ UNCHANGED t_read
               ELSE /\ t_read' = [t_read EXCEPT ![c] = output[raw_file]]
                    /\ t_touched' = [t_touched EXCEPT ![c] = @ \cup {raw_file}]
                    /\ t_state' = [t_state EXCEPT ![c]["clean"] = "running"]
                    /\ UNCHANGED <<output, t_arg, t_result>>
    /\ UNCHANGED <<urls, q_i, t_crawl>>
    /\ UNCHANGED <<evars, cvars, kvars, nvars, xvars>>

\* clean_all_listings_fully_sync keeps some of the records it loaded; they are
\* written to the cleaned file and counted in the return value
CleanTaskSaves ==
    /\ \E c \in Chains :
        LET scrape_result == t_arg[c]["clean"]
            cleaned_file == FileName("cleaned", scrape_result.url)
        IN  /\ t_state[c]["clean"] = "running"
            /\ \E n \in 0..t_read[c].n :
                /\ output' = [output EXCEPT
                                 ![cleaned_file] = File(c, t_read[c].of, n)]
                /\ t_touched' = [t_touched EXCEPT ![c] = @ \cup {cleaned_file}]
                /\ Chained(c, "clean", TRUE,
                           Result(scrape_result.url, cleaned_file, n, ""))
    /\ UNCHANGED <<urls, q_i, t_crawl, t_read>>
    /\ UNCHANGED <<evars, cvars, kvars, nvars, xvars>>

\* the cleaned file cannot be written: clean_task logs and raises again
CleanTaskRaises ==
    /\ \E c \in Chains :
        /\ t_state[c]["clean"] = "running"
        /\ Chained(c, "clean", FALSE, NoResult)
    /\ UNCHANGED <<urls, q_i, output, t_crawl, t_read, t_touched>>
    /\ UNCHANGED <<evars, cvars, kvars, nvars, xvars>>

\* format_task(clean_result) up to the test of the cleaned file
FormatTaskBegin ==
    /\ \E c \in Chains :
        LET clean_result == t_arg[c]["format"]
            cleaned_file == clean_result.file
            formatted_file == FileName("formatted", clean_result.url)
        IN  /\ t_state[c]["format"] = "pending"
            /\ IF ~output[cleaned_file].exists
               THEN /\ t_touched' = [t_touched EXCEPT ![c] = @ \cup {cleaned_file}]
                    /\ Chained(c, "format", TRUE,
                               Result(clean_result.url, formatted_file, -1,
                                      "Cleaned file not found"))
               ELSE /\ t_touched' = [t_touched EXCEPT ![c] = @ \cup {cleaned_file}]
                    /\ t_state' = [t_state EXCEPT ![c]["format"] = "running"]
                    /\ UNCHANGED <<t_arg, t_result>>
    /\ UNCHANGED <<urls, q_i, output, t_crawl, t_read>>
    /\ UNCHANGED <<evars, cvars, kvars, nvars, xvars>>

\* the report of the cleaned file is written to the formatted file and the
\* cleaned file is loaded once more for the count
FormatTaskSaves ==
    /\ \E c \in Chains :
        LET clean_result == t_arg[c]["format"]
            cleaned_file == clean_result.file
            formatted_file == FileName("formatted", clean_result.url)
        IN  /\ t_state[c]["format"] = "running"
            /\ output' = [output EXCEPT
                             ![formatted_file] =
                                 File(c, output[cleaned_file].of, output[cleaned_file].n)]
            /\ t_touched' = [t_touched EXCEPT ![c] = @ \cup {formatted_file}]
            /\ Chained(c, "format", TRUE,
                       Result(clean_result.url, formatted_file,
                              output[cleaned_file].n, ""))
    /\ UNCHANGED <<urls, q_i, t_crawl, t_read>>
    /\ UNCHANGED <<evars, cvars, kvars, nvars, xvars>>

\* the call of format_all_listings_fully_sync raises: format_task logs and
\* raises again
FormatTaskRaises ==
    /\ \E c \in Chains :
        /\ t_state[c]["format"] = "running"
        /\ Chained(c, "format", FALSE, NoResult)
    /\ UNCHANGED <<urls, q_i, output, t_crawl, t_read, t_touched>>
    /\ UNCHANGED <<evars, cvars, kvars, nvars, xvars>>

NextPipeline ==
    \/ QueueChain
    \/ ScrapeTaskBegin
    \/ ScrapeTaskRaises
    \/ ScrapeTaskNoPage
    \/ ScrapeTaskSaves
    \/ CleanTaskBegin
    \/ CleanTaskSaves
    \/ CleanTaskRaises
    \/ FormatTaskBegin
    \/ FormatTaskSaves
    \/ FormatTaskRaises

(***************************************************************************)
(* The proxy endpoints (src/app/routers/results.py, targets.py).           *)
(*                                                                         *)
(* A detail string is a sequence of parts [form, val]: a literal of the    *)
(* handler, a status code, the text of the upstream body, or the upstream  *)
(* body parsed and written again by json.dumps(..., indent=2).             *)
(***************************************************************************)
Endpoint(router, name, accepts, detailed, label) ==
    [router |-> router, name |-> name, accepts |-> accepts,
     detailed |-> detailed, label |-> label]

Endpoints ==
    {Endpoint("results", "get_all_results", "2xx", FALSE, "Error getting results: "),
     Endpoint("results", "get_result_by_id", "2xx", TRUE, "Error getting result: "),
     Endpoint("results", "create_result", "200, 201", TRUE, "Error creating result: "),
     Endpoint("results", "update_result", "2xx", TRUE, "Error updating result: "),
     Endpoint("results", "delete_result", "2xx", FALSE, "Error deleting result: "),
     Endpoint("targets", "get_all_targets", "2xx", FALSE, "Error getting targets: "),
     Endpoint("targets", "get_target_by_id", "2xx", TRUE, "Error getting target: "),
     Endpoint("targets", "create_target", "200, 201", TRUE, "Error creating target: "),
     Endpoint("targets", "update_target", "2xx", TRUE, "Error updating target: "),
     Endpoint("targets", "delete_target", "2xx", TRUE, "Error deleting target: "),
     Endpoint("targets", "pause_target", "2xx", TRUE, "Error pausing target: "),
     Endpoint("targets", "unpause_target", "2xx", TRUE, "Error unpausing target: ")}

NoEndpoint == Endpoint("none", "none", "2xx", FALSE, "")

\* status codes the upstream answers with
Statuses == {200, 201, 204, 299, 300, 301, 401, 404, 500}

\* upstream bodies: plain text, a JSON document, nothing
Bodies ==
    {[json |-> FALSE, text |-> "Not Found"],
     [json |-> TRUE, text |-> "{\"detail\": \"Unauthorized\"}"],
     [json |-> FALSE, text |-> ""]}

NoUpstream == [kind |-> "none", status |-> 0, body |-> [json |-> FALSE, text |-> ""]]

Response(status, body) == [kind |-> "response", status |-> status, body |-> body]

\* httpx.RequestError: no response at all
NetworkError == [kind |-> "network error", status |-> 0, body |-> [json |-> FALSE, text |-> ""]]

Part(form, val) == [form |-> form, val |-> val]

\* error_detail = response.text; try: error_detail =
\* json.dumps(response.json(), indent=2); except: pass
ErrorDetail(body) ==
    IF body.json THEN Part("dumps", body.text) ELSE Part("text", body.text)

\* an exception in flight: an HTTPException(status_code, detail) or another
\* exception with its message
HTTPException(status_code, detail) ==
    [raised |-> TRUE, http |-> TRUE, status_code |-> status_code,
     detail |-> detail, content |-> ""]

OtherException(message) ==
    [raised |-> TRUE, http |-> FALSE, status_code |-> 0,
     detail |-> <<Part("literal", message)>>, content |-> ""]

Returned(content) ==
    [raised |-> FALSE, http |-> FALSE, status_code |-> 0, detail |-> <<>>,
     content |-> content]

\* str(e): the __str__ of starlette's HTTPException gives
\* "status_code: detail"; other exceptions give their message
StrOf(e) ==
    IF e.http
    THEN <<Part("status", ToString(e.status_code)), Part("literal", ": ")>> \o e.detail
    ELSE e.detail

Accepted_Below400(e, status) == status < 400

\* "Accept all 2xx status codes as success" / "Accept both 200 and 201"
Accepted(e, status) ==
    IF e.accepts = "200, 201"
    THEN status \in {200, 201}
    ELSE ~(status < 200 \/ status >= 300)

\* the inner block of a handler: the request, the test of the status, the
\* except httpx.RequestError clause of the handlers that have one, and
\* return response.json(), which raises on a body that is not JSON
Inner(e, up) ==
    IF up.kind = "network error"
    THEN IF e.detailed
         THEN HTTPException(500, <<Part("literal", "Network error: "), Part("literal", "connect failed")>>)
         ELSE OtherException("connect failed")
    ELSE IF ~Accepted(e, up.status)
    THEN IF e.detailed
         THEN HTTPException(up.status, <<Part("literal", "API Error: "), ErrorDetail(up.body)>>)
         ELSE HTTPException(up.status, <<Part("text", up.body.text)>>)
    ELSE IF up.body.json
    THEN Returned(up.body.text)
    ELSE OtherException("Expecting value")

Outer_PassHTTPException(e, inner) ==
    IF inner.raised /\ ~inner.http
    THEN HTTPException(500, <<Part("literal", e.label)>> \o StrOf(inner))
    ELSE inner

\* except Exception as e: raise HTTPException(status_code=500,
\* detail=f"Error ...: {str(e)}"); HTTPException is an Exception too
Outer(e, inner) ==
    IF inner.raised
    THEN HTTPException(500, <<Part("literal", e.label)>> \o StrOf(inner))
    ELSE inner

\* what the framework sends: 200 with the returned value, or the status and
\* the detail of the HTTPException that left the handler
ClientResponse(out) ==
    IF out.raised
    THEN [success |-> FALSE, status |-> out.status_code, detail |-> out.detail,
          content |-> ""]
    ELSE [success |-> TRUE, status |-> 200, detail |-> <<>>,
          content |-> out.content]

NoClient == [success |-> FALSE, status |-> 0, detail |-> <<>>, content |-> ""]

\* the handler sends the request upstream and awaits
ProxySend ==
    /\ x_pc = "start"
    /\ x_pc' = "await"
    /\ UNCHANGED <<endpoint, upstream, client>>
    /\ UNCHANGED <<evars, cvars, kvars, nvars, pvars>>

\* the upstream answers: the rest of the handler runs on the response
ProxyResponse ==
    /\ x_pc = "await"
    /\ \E status \in Statuses, body \in Bodies :
        /\ upstream' = Response(status, body)
        /\ client' = ClientResponse(Outer(endpoint, Inner(endpoint, upstream')))
    /\ x_pc' = "done"
    /\ UNCHANGED endpoint
    /\ UNCHANGED <<evars, cvars, kvars, nvars, pvars>>

\* the request fails with httpx.RequestError
ProxyNetworkError ==
    /\ x_pc = "await"
    /\ upstream' = NetworkError
    /\ client' = ClientResponse(Outer(endpoint, Inner(endpoint, upstream')))
    /\ x_pc' = "done"
    /\ UNCHANGED endpoint
    /\ UNCHANGED <<evars, cvars, kvars, nvars, pvars>>

NextProxy ==
    \/ ProxySend
    \/ ProxyResponse
    \/ ProxyNetworkError

(***************************************************************************)
(* Initial states and specifications.                                      *)
(***************************************************************************)
ExtractIdle ==
    /\ workload = "none"
    /\ all_chunks = <<>>
    /\ max_chunks = NoLimit
    /\ max_total_tokens = NoLimit
    /\ delay_seconds = 0
    /\ chunks = <<>>
    /\ i = 0
    /\ pc = "idle"
    /\ all_housing_info = <<>>
    /\ requests = <<>>
    /\ sleeps = <<>>
    /\ replies = <<>>
    /\ in_flight = 0
    /\ escaped = FALSE

CleanIdle ==
    /\ input_file = [kind |-> "missing", n |-> 0]
    /\ c_delay = 0
    /\ c_i = 0
    /\ c_pc = "idle"
    /\ attempt = 0
    /\ cleaned_listings = <<>>
    /\ c_requests = <<>>
    /\ c_sleeps = <<>>
    /\ c_waits = <<>>
    /\ c_replies = <<>>
    /\ c_in_flight = 0
    /\ c_escaped = FALSE

ChunkSeqs(n, toks) == UNION {[1..k -> 1..toks] : k \in 0..n}

\* A call of extract_housing_info: either few chunks and any reply of the
\* model, or more chunks under the limits and few kinds of reply.
ExtractCalled ==
    /\ \/ /\ workload = "replies"
          /\ all_chunks \in ChunkSeqs(RichChunks, 1)
          /\ max_chunks = NoLimit
          /\ max_total_tokens = NoLimit
          /\ delay_seconds = 1
       \/ /\ workload = "limits"
          /\ all_chunks \in ChunkSeqs(MaxChunks, MaxTok)
          /\ max_chunks \in {NoLimit} \cup {Limit(k) : k \in 0..(MaxChunks - 1)}
          /\ max_total_tokens \in {NoLimit} \cup {Limit(k) : k \in 0..MaxBudget}
          /\ delay_seconds \in {0, 1}
    /\ chunks = <<>>
    /\ i = 0
    /\ pc = "start"
    /\ all_housing_info = <<>>
    /\ requests = <<>>
    /\ sleeps = <<>>
    /\ replies = <<>>
    /\ in_flight = 0
    /\ escaped = FALSE

\* A call of clean_all_listings: the input file holds a JSON array of n raw
\* listings, or is missing, or holds something else.
CleanCalled ==
    /\ input_file \in {[kind |-> "array", n |-> n] : n \in 0..MaxRecords}
                        \cup {[kind |-> k, n |-> 0] :
                                k \in {"missing", "not_json", "not_array"}}
    /\ c_delay \in {0, 1}
    /\ c_i = 0
    /\ c_pc = "start"
    /\ attempt = 0
    /\ cleaned_listings = <<>>
    /\ c_requests = <<>>
    /\ c_sleeps = <<>>
    /\ c_waits = <<>>
    /\ c_replies = <<>>
    /\ c_in_flight = 0
    /\ c_escaped = FALSE

ChunkIdle ==
    /\ cleaned_text = <<>>
    /\ max_tokens = 0
    /\ overlap_tokens = 0
    /\ boundaries = <<>>
    /\ k_i = 0
    /\ current_start = 0
    /\ current_tokens = 0
    /\ smart_chunks = <<>>
    /\ k_pc = "idle"

\* A call of create_smart_chunks(text, max_tokens, overlap_tokens)
ChunkCalled ==
    /\ cleaned_text \in {clean_text(text) : text \in Texts}
    /\ max_tokens \in 1..MaxTokens
    /\ overlap_tokens \in 0..MaxOverlap
    /\ boundaries = <<>>
    /\ k_i = 0
    /\ current_start = 0
    /\ current_tokens = 0
    /\ smart_chunks = <<>>
    /\ k_pc = "start"

NormalizeIdle ==
    /\ raw_object = [k \in {} |-> None]
    /\ listing = NoListing
    /\ relisting = NoListing
    /\ n_pc = "idle"

\* A raw object is about to be validated
NormalizeCalled ==
    /\ raw_object \in RawObjects
    /\ listing = NoListing
    /\ relisting = NoListing
    /\ n_pc = "start"

PipelineIdle ==
    /\ urls = <<>>
    /\ q_i = 1
    /\ output = [f \in {} |-> NoFile]
    /\ t_state = <<>>
    /\ t_arg = <<>>
    /\ t_result = <<>>
    /\ t_crawl = <<>>
    /\ t_read = <<>>
    /\ t_touched = <<>>

\* queue_tasks(urls) is called; output/ may hold raw files of an earlier run
\* for the URLs of this one
PipelineCalled ==
    /\ urls \in UrlLists
    /\ q_i = 1
    /\ \E stale \in SUBSET {url_hash(urls[c]) : c \in DOMAIN urls} :
        output = [f \in FileNames |->
                     IF f.kind = "raw" /\ f.name \in stale
                     THEN File(0, 0, 1) ELSE NoFile]
    /\ t_state = [c \in DOMAIN urls |-> [s \in StageNames |-> "unqueued"]]
    /\ t_arg = [c \in DOMAIN urls |-> [s \in StageNames |-> NoResult]]
    /\ t_result = [c \in DOMAIN urls |-> [s \in StageNames |-> NoResult]]
    /\ t_crawl = [c \in DOMAIN urls |-> "none"]
    /\ t_read = [c \in DOMAIN urls |-> NoFile]
    /\ t_touched = [c \in DOMAIN urls |-> {}]

ProxyIdle ==
    /\ endpoint = NoEndpoint
    /\ x_pc = "idle"
    /\ upstream = NoUpstream
    /\ client = NoClient

\* a request reaches one of the handlers
ProxyCalled ==
    /\ endpoint \in Endpoints
    /\ x_pc = "start"
    /\ upstream = NoUpstream
    /\ client = NoClient

InitExtract == ExtractCalled /\ CleanIdle /\ ChunkIdle /\ NormalizeIdle
    /\ PipelineIdle /\ ProxyIdle

InitClean == ExtractIdle /\ CleanCalled /\ ChunkIdle /\ NormalizeIdle
    /\ PipelineIdle /\ ProxyIdle

InitChunk == ExtractIdle /\ CleanIdle /\ ChunkCalled /\ NormalizeIdle
    /\ PipelineIdle /\ ProxyIdle

InitNormalize == ExtractIdle /\ CleanIdle /\ ChunkIdle /\ NormalizeCalled
    /\ PipelineIdle /\ ProxyIdle

\* The two stages that call the model: an extraction run or a cleaning run.
Init == InitExtract \/ InitClean

Next == NextExtract \/ NextClean

SpecExtract == InitExtract /\ [][NextExtract]_vars

SpecClean == InitClean /\ [][NextClean]_vars

SpecChunk == InitChunk /\ [][NextChunk]_vars

SpecNormalize == InitNormalize /\ [][NextNormalize]_vars

InitPipeline == ExtractIdle /\ CleanIdle /\ ChunkIdle /\ NormalizeIdle
    /\ PipelineCalled /\ ProxyIdle

SpecPipeline == InitPipeline /\ [][NextPipeline]_vars

InitProxy == ExtractIdle /\ CleanIdle /\ ChunkIdle /\ NormalizeIdle
    /\ PipelineIdle /\ ProxyCalled

SpecProxy == InitProxy /\ [][NextProxy]_vars

Spec == Init /\ [][Next]_vars

PcValues == {"idle", "start", "loop", "call", "await", "retry", "done"}

\* The run leaves the position it is at.  Between its start and its end a run
\* can always take a step, and every step of Next moves pc or c_pc.
ExtractAdvances == pc \notin {"idle", "done"} /\ pc' \in PcValues \ {pc}

CleanAdvances == c_pc \notin {"idle", "done"} /\ c_pc' \in PcValues \ {c_pc}

\* Every request returns or raises and every sleep ends: a run that has not
\* ended does not stay where it is for ever.
FairSpec == Spec /\ WF_pc(ExtractAdvances) /\ WF_c_pc(CleanAdvances)

(***************************************************************************)
(* What the claims speak of.                                               *)
(***************************************************************************)
Range(q) == {q[k] : k \in DOMAIN q}

Count(q, x) == Cardinality({k \in DOMAIN q : q[k] = x})

\* the elements of the JSON a reply carries (none when there is no JSON)
Elements(reply) ==
    LET doc == ResponseJson(reply)
    IN  IF reply.error \/ doc = NotJson THEN <<>>
        ELSE IF doc.json = "array" THEN doc.val
        ELSE <<doc>>

\* an element of a reply that the schema accepts / rejects
SchemaValid(e) == e.json = "object" /\ PropertyListing(WithSource(e.val)).ok

SchemaInvalid(e) == e.json = "object" /\ ~PropertyListing(WithSource(e.val)).ok

RecordOf(e) == PropertyListing(WithSource(e.val)).rec

\* the records of the schema-valid elements, in the order of the reply
RECURSIVE ValidRecords(_)
ValidRecords(elems) ==
    IF elems = <<>> THEN <<>>
    ELSE (IF SchemaValid(Head(elems)) THEN <<RecordOf(Head(elems))>> ELSE <<>>)
            \o ValidRecords(Tail(elems))

\* processing the chunk failed: request error, malformed JSON, schema exception
ChunkFailed(reply) ==
    \/ reply.error
    \/ ResponseJson(reply) = NotJson
    \/ \E e \in Range(Elements(reply)) : SchemaInvalid(e)

RECURSIVE ConcatValid(_)
ConcatValid(rs) ==
    IF rs = <<>> THEN <<>>
    ELSE ValidRecords(Elements(Head(rs))) \o ConcatValid(Tail(rs))

Complete(rec) == \A f \in RequiredFields : rec[f] # None

\* C1: every record of the list returned by extraction or by cleaning has a
\* value (not None) for each required field: address, price, currency,
\* bedrooms, bathrooms, listing_type, property_type, description, image_link.
C1_RequiredFieldsPresent ==
    /\ pc = "done" => \A rec \in Range(all_housing_info) : Complete(rec)
    /\ c_pc = "done" => \A rec \in Range(cleaned_listings) : Complete(rec)

\* C2: when the processing of retained chunk a fails, every retained chunk
\* b > a is still requested, the valid records of its reply are in the
\* returned list, and no exception leaves extract_housing_info.
C2_ChunkFaultIsolated ==
    pc = "done" =>
        /\ ~escaped
        /\ \A a \in 1..Len(replies) :
              ChunkFailed(replies[a]) =>
                 \A b \in (a + 1)..Len(chunks) :
                    /\ chunks[b] \in Range(requests)
                    /\ b <= Len(replies)
                    /\ Range(ValidRecords(Elements(replies[b])))
                          \subseteq Range(all_housing_info)

\* C3: within one reply each schema-invalid element is dropped on its own:
\* every valid element of the same reply, before or after the invalid one,
\* has its record in the returned list.
C3_InvalidDroppedIndividually ==
    pc = "done" =>
        \A b \in 1..Len(replies) :
            \A k \in 1..Len(Elements(replies[b])) :
                SchemaValid(Elements(replies[b])[k]) =>
                    RecordOf(Elements(replies[b])[k]) \in Range(all_housing_info)

\* C4: exactly one request per retained chunk, in chunk order, whatever the
\* earlier outcomes; one sleep of delay_seconds before every request except
\* the first, none before the first (and none at all when the delay is 0).
C4_OneRequestPerChunkThrottled ==
    pc \in {"loop", "call", "await", "done"} =>
        /\ Len(requests) <= Len(chunks)
        /\ requests = SubSeq(chunks, 1, Len(requests))
        /\ pc = "done" => requests = chunks
        /\ sleeps = [k \in 1..Len(sleeps) |-> k + 1]
        /\ IF delay_seconds > 0
           THEN /\ Len(requests) >= 1 => Len(sleeps) >= Len(requests) - 1
                /\ Len(sleeps) <= Len(requests)
                /\ pc \in {"await", "done"} => Len(sleeps) = Max(Len(requests) - 1, 0)
           ELSE sleeps = <<>>

C4_Witness ==
    /\ pc = "done"
    /\ Len(chunks) >= 2
    /\ delay_seconds > 0
    /\ replies[1].error
    /\ Len(requests) = Len(chunks)
    /\ sleeps # <<>>

\* C5: the returned list is the concatenation, in chunk order, of the valid
\* records of each retained chunk, each chunk's records in the order of the
\* model's reply.
C5_ConcatenationInChunkOrder ==
    pc = "done" => all_housing_info = ConcatValid(replies)

RECURSIVE SumTokens(_, _, _)
SumTokens(all, idx, n) ==
    IF n = 0 THEN 0 ELSE SumTokens(all, idx, n - 1) + all[idx[n]]

\* length of the longest prefix of idx whose tokens sum to at most budget
LongestPrefix(all, idx, budget) ==
    CHOOSE n \in 0..Len(idx) :
        /\ SumTokens(all, idx, n) <= budget
        /\ \A m \in (n + 1)..Len(idx) : SumTokens(all, idx, m) > budget

BudgetRespected ==
    LET idx == TruncateChunks(all_chunks, max_chunks)
        n   == LongestPrefix(all_chunks, idx, max_total_tokens.val)
    IN  /\ chunks = SubSeq(idx, 1, n)
        /\ pc = "done" => requests = chunks
        /\ (idx # <<>> /\ all_chunks[idx[1]] > max_total_tokens.val /\ pc = "done")
              => requests = <<>> /\ all_housing_info = <<>>

\* C6 as stated: whenever max_total_tokens is given, the chunks sent are the
\* longest prefix (after the max_chunks truncation) whose cumulative token
\* count does not exceed it; a first chunk larger than the budget gives zero
\* requests and an empty result.
C6_BudgetPrefixWheneverGiven ==
    (pc # "start" /\ max_total_tokens.some) => BudgetRespected

\* C6 amended: the same, when max_total_tokens is given and greater than 0
\* (0 or less switches the budget off: every chunk is sent).
C6_BudgetPrefixWhenPositive ==
    /\ (pc # "start" /\ max_total_tokens.some /\ max_total_tokens.val > 0)
          => BudgetRespected
    /\ (pc # "start" /\ max_total_tokens.some /\ max_total_tokens.val <= 0)
          => chunks = TruncateChunks(all_chunks, max_chunks)

\* the budget stops the selection at a chunk although a later chunk would fit
C6_Witness ==
    /\ pc = "done"
    /\ max_total_tokens.some /\ max_total_tokens.val > 0
    /\ Len(chunks) >= 1
    /\ LET idx == TruncateChunks(all_chunks, max_chunks)
       IN  /\ Len(idx) >= Len(chunks) + 2
           /\ SumTokens(all_chunks, idx, Len(chunks))
                 + all_chunks[idx[Len(chunks) + 2]] <= max_total_tokens.val
    /\ requests = chunks

\* the reply is a non-empty object that passes the schema
Survives(reply) ==
    /\ ~reply.error
    /\ LET doc == ResponseJson(reply)
       IN  /\ doc.json = "object"
           /\ DOMAIN doc.val # {}
           /\ PropertyListing(doc.val).ok

\* Survives and the record the schema makes of the reply, tabulated over the
\* replies the cleaning model can give
SurvivalTable ==
    [reply \in CleanReplies \cup {RequestError} |->
        IF Survives(reply)
        THEN <<PropertyListing(ResponseJson(reply).val).rec>> ELSE <<>>]

RECURSIVE Survivors(_)
Survivors(rs) ==
    IF rs = <<>> THEN <<>>
    ELSE SurvivalTable[Head(rs)] \o Survivors(Tail(rs))

NonDecreasing(q) == \A j, k \in DOMAIN q : j <= k => q[j] <= q[k]

\* C7: cleaning takes the raw records one per request, in input order, and
\* its result is the in-order subsequence of the input made of exactly the
\* records whose reply is a non-empty object that passes the schema; an empty
\* object discards the record without error.
C7_CleanedIsOrderedSubsequence ==
    /\ NonDecreasing(c_requests)
    /\ Range(c_requests) \subseteq 1..input_file.n
    /\ cleaned_listings = Survivors(c_replies)
    /\ ~c_escaped
    /\ (c_pc = "done" /\ input_file.kind = "array") =>
          /\ Len(c_replies) = input_file.n
          /\ Range(c_requests) = 1..input_file.n

\* 3 records, one of them answered by the empty object: 2 records are left
C7_Witness ==
    /\ c_pc = "done"
    /\ input_file.n = 3
    /\ Count(c_replies, Text(EmptyObject)) = 1
    /\ Cardinality({k \in 1..3 : Survives(c_replies[k])}) = 2
    /\ Len(cleaned_listings) = 2
    /\ cleaned_listings[1] # cleaned_listings[2]

WaitsOf(r) == Cardinality({k \in DOMAIN c_waits : c_waits[k].rec = r})

\* C8: the request for one record is attempted at most 3 times; every failed
\* attempt before the third is followed by another attempt; after the third
\* failure the record is skipped and the next record is processed, the batch
\* still ending with every record processed.
C8_AtMostThreeAttempts ==
    /\ \A r \in 1..input_file.n : Count(c_requests, r) <= 3
    /\ \A r \in 1..Len(c_replies) :
          /\ Count(c_requests, r) = WaitsOf(r) + 1
          /\ c_replies[r].error => Count(c_requests, r) = 3 /\ WaitsOf(r) = 2
    /\ c_pc = "retry" => Count(c_requests, c_i) = WaitsOf(c_i) /\ WaitsOf(c_i) <= 2
    /\ c_pc = "await" => Count(c_requests, c_i) = WaitsOf(c_i) + 1
    /\ ~c_escaped
    /\ (c_pc = "done" /\ input_file.kind = "array") =>
          Len(c_replies) = input_file.n

\* a record fails three times, the next one is cleaned and returned
C8_Witness ==
    /\ c_pc = "done"
    /\ \E r \in 1..(Len(c_replies) - 1) :
          /\ c_replies[r].error
          /\ Count(c_requests, r) = 3
          /\ Survives(c_replies[r + 1])
    /\ cleaned_listings # <<>>

SecsAfter(r, k) ==
    {c_waits[j].secs : j \in {m \in DOMAIN c_waits :
                                 c_waits[m].rec = r /\ c_waits[m].after = k}}

\* C9 as stated: the wait after the first failed attempt is 4 s, the wait
\* after the second failed attempt is larger than the first, and no wait
\* exceeds 60 s.
C9_BackoffGrows ==
    \A r \in 1..input_file.n :
        /\ \A w \in SecsAfter(r, 1) : w = 4
        /\ \A w1 \in SecsAfter(r, 1) : \A w2 \in SecsAfter(r, 2) : w2 > w1
        /\ \A k \in 1..3 : \A w \in SecsAfter(r, k) : w <= 60

\* C9 amended: the wait after the k-th failed attempt is 2^(k-1) s raised to
\* the floor of 4 s and capped at 60 s; with at most 3 attempts there are at
\* most two waits per request, 4 s after the first failure and 4 s again
\* (equal, not larger) after the second; no wait exceeds 60 s.
C9_BackoffFlooredAtFour ==
    /\ \A j \in DOMAIN c_waits : c_waits[j].after \in {1, 2}
    /\ \A r \in 1..input_file.n :
          /\ \A w \in SecsAfter(r, 1) : w = 4
          /\ \A w1 \in SecsAfter(r, 1) : \A w2 \in SecsAfter(r, 2) : w2 = w1
          /\ \A k \in 1..3 : \A w \in SecsAfter(r, k) : 4 <= w /\ w <= 60
          /\ WaitsOf(r) <= 2

\* one request has failed twice and has waited twice
C9_Witness ==
    \E r \in 1..input_file.n : SecsAfter(r, 1) # {} /\ SecsAfter(r, 2) # {}

\* C10: within one extraction or cleaning call at most one model request is
\* in flight; the request for unit k+1 is issued only once the processing of
\* unit k (request, retries, parsing, validation) has finished.
C10_OneRequestInFlight ==
    /\ in_flight \in {0, 1}
    /\ Len(requests) = Len(replies) + in_flight
    /\ c_in_flight \in {0, 1}
    /\ \A j \in DOMAIN c_requests : c_requests[j] <= Len(c_replies) + 1
    /\ c_in_flight = 1 =>
          c_requests # <<>> /\ c_requests[Len(c_requests)] = Len(c_replies) + 1
    /\ c_in_flight = 0 /\ c_pc # "retry" =>
          \A j \in DOMAIN c_requests : c_requests[j] <= Len(c_replies)

\* the request for the second chunk is in flight, the first chunk is finished
C10_Witness ==
    /\ pc = "await"
    /\ in_flight = 1
    /\ Len(replies) >= 1
    /\ Len(requests) = Len(replies) + 1

\* C11: when the cleaning input file is missing, unreadable or does not hold
\* a JSON array, clean_all_listings issues no request, makes no retry wait and
\* no delay, lets no exception out, and returns the empty list.
C11_InputErrorReturnsEmpty ==
    input_file.kind # "array" =>
        /\ c_requests = <<>>
        /\ c_waits = <<>>
        /\ c_sleeps = <<>>
        /\ c_in_flight = 0
        /\ cleaned_listings = <<>>
        /\ ~c_escaped
        /\ c_pc \in {"idle", "start", "done"}

C11_Witness ==
    /\ c_pc = "done"
    /\ input_file.kind = "not_array"
    /\ cleaned_listings = <<>>

\* the text of the j-th chunk returned by create_smart_chunks
ChunkOf(j) == Slice(cleaned_text, smart_chunks[j].from, smart_chunks[j].to)

\* C12: no chunk returned by create_smart_chunks, other than the last one,
\* has more than max_tokens tokens.
C12_NonFinalChunksWithinMaxTokens ==
    k_pc = "done" =>
        \A j \in 1..(Len(smart_chunks) - 1) : Tokens(ChunkOf(j)) <= max_tokens

\* C13: create_smart_chunks never returns a chunk of length zero.
C13_NoEmptyChunk ==
    \A j \in DOMAIN smart_chunks : Len(ChunkOf(j)) > 0

\* C14: the chunks cover the normalized text with no gap: the first starts
\* at position 0, each later one starts at or before the end of the one
\* before it, ends never decrease, and the last ends at the end of the text.
C14_ChunksCoverText ==
    k_pc = "done" =>
        IF cleaned_text = <<>> THEN smart_chunks = <<>>
        ELSE /\ smart_chunks # <<>>
             /\ smart_chunks[1].from = 0
             /\ \A j \in 2..Len(smart_chunks) :
                   /\ smart_chunks[j].from <= smart_chunks[j - 1].to
                   /\ smart_chunks[j - 1].to <= smart_chunks[j].to
             /\ \A j \in DOMAIN smart_chunks :
                   /\ 0 <= smart_chunks[j].from
                   /\ smart_chunks[j].from <= smart_chunks[j].to
             /\ smart_chunks[Len(smart_chunks)].to = Len(cleaned_text)

C14_Witness ==
    /\ k_pc = "done"
    /\ Len(smart_chunks) >= 3
    /\ \E j \in 2..Len(smart_chunks) :
          /\ 0 < smart_chunks[j].from
          /\ smart_chunks[j].from < smart_chunks[j - 1].to
    /\ smart_chunks[Len(smart_chunks)].to = Len(cleaned_text)

\* the raw object has been through PropertyListing and was accepted
Normalized == n_pc \in {"validated", "revalidated"} /\ listing.ok

MXN == Str(<<"M", "X", "N">>)

USD == Str(<<"U", "S", "D">>)

\* the raw object carries one of the four currency codes, in any case
RecognizedCode(raw) ==
    /\ "currency" \in DOMAIN raw
    /\ raw["currency"].t = "str"
    /\ Upper(raw["currency"].s) \in valid_currencies

HasSub(cs, sub) ==
    \E k \in 1..(Len(cs) - Len(sub) + 1) :
        SubSeq(cs, k, k + Len(sub) - 1) = sub

\* C15: after normalization the price of a record is never negative, whether
\* the raw price was a number or a string.
C15_PriceNeverNegative ==
    Normalized => listing.rec.price = None \/ listing.rec.price.n >= 0

\* C16: after normalization the currency of every record is one of USD, MXN,
\* EUR, CAD; a raw object with no currency key, a null currency or an
\* unrecognized code gets MXN.
C16_CurrencyInClosedSet ==
    Normalized =>
        /\ listing.rec.currency.t = "str"
        /\ listing.rec.currency.s \in valid_currencies
        /\ ~RecognizedCode(raw_object) => listing.rec.currency = MXN

\* C17: when the raw object carries no recognized currency code the currency
\* is inferred from the raw price: a price string with a currency symbol and
\* the text MXN gives MXN, a price string with a currency symbol alone gives
\* USD, a price with no symbol gives MXN.
C17_CurrencyInferredFromPrice ==
    (Normalized /\ ~RecognizedCode(raw_object)) =>
        LET price_str == IF "price" \in DOMAIN raw_object
                            /\ raw_object["price"].t = "str"
                         THEN raw_object["price"].s ELSE <<>>
        IN  listing.rec.currency =
               IF HasSub(price_str, <<"$">>) /\ HasSub(price_str, <<"M", "X", "N">>)
               THEN MXN
               ELSE IF HasSub(price_str, <<"$">>) THEN USD
               ELSE MXN

\* C18: after normalization year_built is absent or an integer of
\* [1800, current year], whether the raw value was an integer or a string; a
\* value outside the range becomes absent.
C18_YearBuiltInRange ==
    Normalized =>
        \/ listing.rec.year_built = None
        \/ /\ listing.rec.year_built.t = "int"
           /\ MinYear <= listing.rec.year_built.n
           /\ listing.rec.year_built.n <= CurrentYear

\* C19: normalization is idempotent: normalizing the serialized form of a
\* record (every field a key, absent ones null) gives an equal record.
C19_NormalizationIdempotent ==
    n_pc = "revalidated" => relisting.ok /\ relisting.rec = listing.rec

\* C20: a raw object whose address is a nested object is accepted and its
\* record has a single string as address (the joined subfields); it is not
\* rejected.
C20_NestedAddressFlattened ==
    (n_pc = "validated" /\ "address" \in DOMAIN raw_object
        /\ raw_object["address"].t = "obj") =>
        listing.ok /\ listing.rec.address.t = "str"

\* C23: after a chunk is committed at a cut point, the next chunk starts
\* exactly overlap_tokens tokens before the cut (tokens as counted for the
\* limit), or at position 0 when fewer tokens precede the cut.
C23_OverlapCountedInTokens ==
    k_pc = "done" =>
        \A j \in 1..(Len(smart_chunks) - 1) :
            LET cut   == smart_chunks[j].to
                start == smart_chunks[j + 1].from
            IN  IF Tokens(Slice(cleaned_text, 0, cut)) < overlap_tokens
                THEN start = 0
                ELSE /\ start <= cut
                     /\ Tokens(Slice(cleaned_text, start, cut)) = overlap_tokens

IsPrefix(p, q) == Len(p) <= Len(q) /\ SubSeq(q, 1, Len(p)) = p

\* C24: in an extraction or cleaning run every step leaves the records
\* already in the output list where they are: the list before the step is a
\* prefix of the list after it, hence of the list finally returned.
C24_OutputOnlyAppended ==
    [][/\ IsPrefix(all_housing_info, all_housing_info')
       /\ IsPrefix(cleaned_listings, cleaned_listings')]_vars

C24_Witness ==
    \/ /\ pc = "done"
       /\ Len(replies) = 2
       /\ ValidRecords(Elements(replies[1])) # <<>>
       /\ ChunkFailed(replies[2])
       /\ all_housing_info # <<>>
    \/ /\ c_pc = "done"
       /\ Len(c_replies) = 2
       /\ cleaned_listings # <<>>
       /\ c_replies[1] = Text(Object(Complete1))
       /\ c_replies[2] = Text(NotJson)

\* the records one reply yields on its own
Yield(reply) == ProcessChunk(reply, <<>>).list

\* C25: in extraction a reply that holds a fenced code block yields the
\* records of the contents of that block alone, and a reply that is a single
\* JSON object yields the records of the one-element array holding it.
C25_FencedAndSingleObject ==
    \A k \in DOMAIN replies :
        LET reply == replies[k]
        IN  ~reply.error =>
               /\ reply.fence # "none" => Yield(reply) = Yield(Text(reply.body))
               /\ ResponseJson(reply).json = "object" =>
                     Yield(reply) = Yield(Text(Array(<<ResponseJson(reply)>>)))

\* a response was received for the record and could not be used: it is not
\* JSON, or it is not an object the schema accepts
BadResponse(reply) == ~reply.error /\ ProcessCleaned(reply, <<>>).raised

\* C28: in cleaning only a failed request call is retried (each retry follows
\* a backoff wait logged for the failed call): a record whose response was
\* received but is not JSON or fails the schema has no request beyond the one
\* that brought the response, and yields no record.
C28_BadResponseNotRetried ==
    \A r \in DOMAIN c_replies :
        BadResponse(c_replies[r]) =>
            /\ Count(c_requests, r) = WaitsOf(r) + 1
            /\ c_i > r
            /\ ~Survives(c_replies[r])
            /\ cleaned_listings = Survivors(c_replies)

C28_Witness ==
    /\ c_pc = "done"
    /\ \E r, q \in DOMAIN c_replies :
          /\ c_replies[r] = Text(NotJson)
          /\ c_replies[q] = Text(Object(NestedAddress))
          /\ Count(c_requests, r) = 1
          /\ Count(c_requests, q) = 1

\* C29: when every request returns or fails, a cleaning run over n records
\* ends, with between n and 3n requests and at most n - 1 delays between
\* records, and an extraction run over k retained chunks ends with exactly k
\* requests.
C29_TerminatesWithinBounds ==
    /\ <>(pc \in {"idle", "done"} /\ c_pc \in {"idle", "done"})
    /\ [](c_pc = "done" =>
            /\ input_file.n <= Len(c_requests)
            /\ Len(c_requests) <= 3 * input_file.n
            /\ Len(c_sleeps) <= Max(0, input_file.n - 1))
    /\ [](pc = "done" => Len(requests) = Len(chunks))

C29_Witness ==
    /\ c_pc = "done"
    /\ input_file.n = 2
    /\ Len(c_requests) = 3 * input_file.n
    /\ Len(c_sleeps) = 1

Started(c, stage) == t_state[c][stage] \in {"running", "returned", "raised"}

\* C21: for one URL, clean_task is queued and started only after that URL's
\* scrape_task has returned, with the value it returned as argument, and
\* format_task only after that URL's clean_task has returned, likewise; after
\* a stage that raised no later stage of the chain is queued or run.
C21_StagesInSequence ==
    \A c \in Chains :
        /\ t_state[c]["clean"] # "unqueued" =>
              /\ t_state[c]["scrape"] = "returned"
              /\ t_result[c]["scrape"].url = urls[c]
              /\ t_arg[c]["clean"] = t_result[c]["scrape"]
        /\ t_state[c]["format"] # "unqueued" =>
              /\ t_state[c]["clean"] = "returned"
              /\ t_result[c]["clean"].url = urls[c]
              /\ t_arg[c]["format"] = t_result[c]["clean"]
        /\ t_state[c]["scrape"] = "raised" =>
              t_state[c]["clean"] = "unqueued" /\ t_state[c]["format"] = "unqueued"
        /\ t_state[c]["clean"] = "raised" => t_state[c]["format"] = "unqueued"

C21_Witness ==
    \E c, d \in Chains :
        /\ t_state[c]["format"] = "returned"
        /\ t_result[c]["format"].error = ""
        /\ t_state[d]["clean"] = "raised"
        /\ t_state[d]["format"] = "unqueued"

\* the body of the upstream response is in the detail: its text or, where the
\* handler parses it and writes it again as JSON, that JSON document
CarriesBody(detail, body) ==
    \E k \in DOMAIN detail :
        detail[k].form \in {"text", "dumps"} /\ detail[k].val = body.text

\* C22: at every endpoint of the two routers an upstream response whose
\* status is outside 200..299 is answered to the client by an error response,
\* never a success, and the detail of that error carries the upstream body.
C22_UpstreamFailureIsAnError ==
    (x_pc = "done" /\ upstream.kind = "response"
        /\ upstream.status \notin 200..299) =>
            /\ ~client.success
            /\ client.status >= 400
            /\ CarriesBody(client.detail, upstream.body)

C22_Witness ==
    /\ x_pc = "done"
    /\ endpoint.name = "delete_target"
    /\ upstream = Response(301, [json |-> TRUE, text |-> "{\"detail\": \"Unauthorized\"}"])
    /\ ~client.success
    /\ CarriesBody(client.detail, upstream.body)

\* the two URLs of the call are different
DistinctUrls == Len(urls) = 2 /\ urls[1] # urls[2]

\* C26: for two distinct URLs queued by one call, whatever the interleaving,
\* no file is read or written by both chains, and the raw file a clean_task
\* loads holds the records that the scrape_task of its own chain extracted.
C26_ChainsKeepToTheirFiles ==
    DistinctUrls =>
        /\ t_touched[1] \cap t_touched[2] = {}
        /\ \A c \in Chains :
              (Started(c, "clean") /\ t_read[c].exists) =>
                  t_read[c] = File(c, c, t_result[c]["scrape"].num_listings)

\* C27: when the crawl of a scrape_task fetched no page, the clean_task of
\* the chain loads no raw file, least of all one of an earlier run, reports
\* zero listings and leaves an empty cleaned file written by itself.
C27_NoPageMeansEmptyCleanedFile ==
    \A c \in Chains :
        t_crawl[c] = "no page" =>
            /\ ~t_read[c].exists
            /\ t_state[c]["clean"] = "returned" =>
                  /\ t_result[c]["clean"].num_listings = 0
                  /\ t_result[c]["clean"].file \in t_touched[c]

====
